---- MODULE Spec2Model ----
(***************************************************************************)
(* A model of the compiler front end of N-Adkins/lang: the diagnostics     *)
(* list (error.c), the lexer (lexer/lexer.c), the token driver of main.c   *)
(* and the parser (parser/parser.c, parser/ast.c).                         *)
(*                                                                         *)
(* Bytes are one-character strings, a source text is a sequence of bytes.  *)
(* C offsets are 0-based: byte i of the text is raw[i + 1].                *)
(* Allocations are taken to succeed (the OOM branches are not modelled).   *)
(***************************************************************************)
EXTENDS Integers, Sequences, FiniteSets, TLC

VARIABLES
    source,     \* struct source_info: filename, raw, len
    index,      \* lexer.index, the cursor
    err_ctx,    \* struct error_ctx: errors (the first `size` slots), size, capacity
    token,      \* the struct token the last lexer_next call of the driver filled in
    tokens,     \* every token lexer_next has returned to the driver, in order
    extra,      \* number of lexer_next calls made after the end-of-input token
    previous,   \* parser.previous
    current,    \* parser.current
    result,     \* what the last parser entry point returned (a pointer: <<>> or <<node>>)
    calls,      \* number of grammar-rule calls made on the primed parser
    last,       \* the last grammar-rule call: its name, its tag argument, what it returned
    pc          \* position of the driver

vars == <<source, index, err_ctx, token, tokens, extra, previous, current, result, calls, last, pc>>

(***************************************************************************)
(* Bounds of the model.                                                    *)
(***************************************************************************)
MaxLen == 4          \* lexer runs: every text over LexAlphabet up to this length
MaxExtra == 2        \* lexer_next calls made after end-of-input
MaxParseLen == 3     \* parser runs: every text over ParseAlphabet up to this length
MaxCalls == 2        \* grammar-rule calls on a primed parser

(***************************************************************************)
(* enum token_tag and token_tag_tostring.                                  *)
(***************************************************************************)
TOKEN_EOF == 0
TOKEN_ERROR == 1
TOKEN_KEYWORD_VAR == 2
TOKEN_IDENT == 3
TOKEN_INT_LIT == 4
TOKEN_LPAREN == 5
TOKEN_RPAREN == 6
TOKEN_LCURLY == 7
TOKEN_RCURLY == 8
TOKEN_COLON == 9
TOKEN_SEMICOLON == 10
TOKEN_COMMA == 11

TokenTags == TOKEN_EOF .. TOKEN_COMMA

token_tag_tostring ==
    << "EOF", "ERROR", "KEYWORD_VAR", "IDENT", "INT_LIT", "LPAREN", "RPAREN",
       "LCURLY", "RCURLY", "COLON", "SEMICOLON", "COMMA" >>

TokenTagToString(tag) == token_tag_tostring[tag + 1]

(***************************************************************************)
(* Character classes of lexer.c.                                           *)
(***************************************************************************)
Digits == {"0", "1", "2", "3", "4", "5", "6", "7", "8", "9"}

Letters ==
    {"a", "b", "c", "d", "e", "f", "g", "h", "i", "j", "k", "l", "m",
     "n", "o", "p", "q", "r", "s", "t", "u", "v", "w", "x", "y", "z",
     "A", "B", "C", "D", "E", "F", "G", "H", "I", "J", "K", "L", "M",
     "N", "O", "P", "Q", "R", "S", "T", "U", "V", "W", "X", "Y", "Z"}

is_whitespace(c) == c = " " \/ c = "\n" \/ c = "\t"

is_number(c) == c \in Digits

is_alpha(c) == c \in Letters

is_ident(c) == is_number(c) \/ is_alpha(c) \/ c = "_"

(***************************************************************************)
(* struct error_ctx.  A message is kept as its printf template and its     *)
(* arguments.                                                              *)
(***************************************************************************)
InitCapacity == 8

error_ctx_init == [errors |-> <<>>, size |-> 0, capacity |-> InitCapacity]

error_ctx_push(ctx, fmt, args) ==
    [errors   |-> Append(ctx.errors, [msg |-> fmt, args |-> args]),
     size     |-> ctx.size + 1,
     capacity |-> IF ctx.size >= ctx.capacity THEN ctx.capacity * 2 ELSE ctx.capacity]

error_ctx_isempty(ctx) == ctx.size = 0

IllegalCharFmt == "Found illegal character '%c'"

ExpectedFmt == "Expected token of type \"%s\", instead found token of type \"%s\""

(***************************************************************************)
(* The lexer.  Each function takes the source and the lexer (its cursor    *)
(* and the diagnostics it shares) and returns the lexer it leaves and the  *)
(* token it wrote.                                                         *)
(***************************************************************************)
Token(tag, start, end) == [tag |-> tag, start |-> start, end |-> end]

Byte(src, i) == src.raw[i + 1]

RECURSIVE IdentEnd(_, _)
IdentEnd(src, i) ==
    IF i < src.len /\ is_ident(Byte(src, i)) THEN IdentEnd(src, i + 1) ELSE i

RECURSIVE NumEnd(_, _)
NumEnd(src, i) ==
    IF i < src.len /\ is_number(Byte(src, i)) THEN NumEnd(src, i + 1) ELSE i

tokenize_ident(src, lx) ==
    LET end == IdentEnd(src, lx.index)
    IN  [index |-> end, ctx |-> lx.ctx, token |-> Token(TOKEN_IDENT, lx.index, end)]

tokenize_num(src, lx) ==
    LET end == NumEnd(src, lx.index)
    IN  [index |-> end, ctx |-> lx.ctx, token |-> Token(TOKEN_INT_LIT, lx.index, end)]

MiscTag(c) ==
    CASE c = "(" -> TOKEN_LPAREN
      [] c = ")" -> TOKEN_RPAREN
      [] c = "{" -> TOKEN_LCURLY
      [] c = "}" -> TOKEN_RCURLY
      [] c = ":" -> TOKEN_COLON
      [] c = ";" -> TOKEN_SEMICOLON
      [] c = "," -> TOKEN_COMMA
      [] OTHER   -> TOKEN_ERROR

MiscNoPush(src, lx) ==
    LET next_c == Byte(src, lx.index)
    IN  [index |-> lx.index + 1, ctx |-> lx.ctx,
         token |-> Token(MiscTag(next_c), lx.index, lx.index + 1)]

MiscNoAdvance(src, lx) ==
    LET next_c == Byte(src, lx.index)
        tag    == MiscTag(next_c)
    IN  [index |-> lx.index,
         ctx   |-> IF tag = TOKEN_ERROR
                   THEN error_ctx_push(lx.ctx, IllegalCharFmt, <<next_c>>)
                   ELSE lx.ctx,
         token |-> Token(tag, lx.index, lx.index)]

tokenize_misc(src, lx) ==
    LET next_c == Byte(src, lx.index)
        tag    == MiscTag(next_c)
    IN  [index |-> lx.index + 1,
         ctx   |-> IF tag = TOKEN_ERROR
                   THEN error_ctx_push(lx.ctx, IllegalCharFmt, <<next_c>>)
                   ELSE lx.ctx,
         token |-> Token(tag, lx.index, lx.index + 1)]

RECURSIVE WsRunEnd(_, _)
WsRunEnd(src, i) ==
    IF i < src.len /\ is_whitespace(Byte(src, i)) THEN WsRunEnd(src, i + 1) ELSE i

SkipOneTooMany(src, i) ==
    LET e == WsRunEnd(src, i)
    IN  IF e > i /\ e < src.len THEN e + 1 ELSE e

RECURSIVE skip_whitespace(_, _)
skip_whitespace(src, i) ==
    IF i < src.len /\ is_whitespace(Byte(src, i)) THEN skip_whitespace(src, i + 1) ELSE i

\* `start` is an int and `len` a uint64_t: for len = 0 the difference wraps to
\* 2^64 - 1, which narrows to the int -1.
EofStart(len) == IF len = 0 THEN -1 ELSE len - 1

lexer_next(src, lx) ==
    LET i  == skip_whitespace(src, lx.index)
        at == [index |-> i, ctx |-> lx.ctx]
    IN  IF i >= src.len
        THEN [index |-> i, ctx |-> lx.ctx,
              token |-> Token(TOKEN_EOF, EofStart(src.len), src.len)]
        ELSE IF is_number(Byte(src, i)) THEN tokenize_num(src, at)
        ELSE IF is_ident(Byte(src, i)) THEN tokenize_ident(src, at)
        ELSE tokenize_misc(src, at)

lexer_init(ctx) == [index |-> 0, ctx |-> ctx]

(***************************************************************************)
(* Source texts.                                                           *)
(***************************************************************************)
RECURSIVE TextsUpTo(_, _)
TextsUpTo(alphabet, n) ==
    IF n = 0 THEN {<<>>}
    ELSE LET shorter == TextsUpTo(alphabet, n - 1)
         IN  shorter \cup {Append(t, c) : t \in {s \in shorter : Len(s) = n - 1}, c \in alphabet}

Filename == <<"i", "d", "k", ".", "t", "e", "s", "t">>

SourceInfo(text) == [filename |-> Filename, raw |-> text, len |-> Len(text)]

LexAlphabet == {"v", "a", "r", "1", "_", " ", "%", ";"}

Text_a_pct_b == <<"a", "%", "b">>

NineIllegal == [i \in 1 .. 9 |-> "%"]

Text_tab_nl == <<"x", "\t", "(", "\n", "7">>

LexTexts == TextsUpTo(LexAlphabet, MaxLen) \cup {Text_a_pct_b, NineIllegal, Text_tab_nl}

NoToken == [tag |-> -1, start |-> -1, end |-> -1]

NULL == <<>>

NoCall == [op |-> "none", tag |-> -1, ok |-> FALSE, out_token |-> NoToken]

(***************************************************************************)
(* main.c: lex one source to end-of-input, one token per step.             *)
(***************************************************************************)
Init ==
    /\ source \in {SourceInfo(t) : t \in LexTexts}
    /\ index = lexer_init(error_ctx_init).index
    /\ err_ctx = lexer_init(error_ctx_init).ctx
    /\ token = NoToken
    /\ tokens = <<>>
    /\ extra = 0
    /\ previous = NoToken
    /\ current = NoToken
    /\ result = NULL
    /\ calls = 0
    /\ last = NoCall
    /\ pc = "lexing"

CallLexerNext ==
    LET r == lexer_next(source, [index |-> index, ctx |-> err_ctx])
    IN  /\ index' = r.index
        /\ err_ctx' = r.ctx
        /\ token' = r.token
        /\ tokens' = Append(tokens, r.token)

\* do { lexer_next(&lexer, &token); ... } while (token.tag != TOKEN_EOF);
MainLoop ==
    /\ pc = "lexing"
    /\ CallLexerNext
    /\ pc' = IF token'.tag = TOKEN_EOF THEN "done" ELSE "lexing"
    /\ UNCHANGED <<source, extra, previous, current, result, calls, last>>

\* A caller that keeps pulling tokens after end-of-input, as parser_advance does.
ExtraCall ==
    /\ pc = "done"
    /\ extra < MaxExtra
    /\ CallLexerNext
    /\ extra' = extra + 1
    /\ UNCHANGED <<source, previous, current, result, calls, last, pc>>

Next == MainLoop \/ ExtraCall

Spec == Init /\ [][Next]_vars

(***************************************************************************)
(* enum ast_tag and struct ast_node (ast.h, ast.c).  A pointer to a node   *)
(* is <<>> (NULL) or <<node>>.                                             *)
(***************************************************************************)
AST_MODULE == 0
AST_FUNC_DECL == 1
AST_BLOCK == 2
AST_VAR_DECL == 3
AST_VAR_GET == 4
AST_INT_LIT == 5
AST_TYPE_NAME == 6

AST_STRING_LEN == 128

ChildCapacity == 8

INT_MAX == 2147483647

ast_init ==
    [tag |-> AST_MODULE, string |-> <<>>, number |-> 0, child |-> <<>>,
     child_count |-> 0, child_capacity |-> ChildCapacity, source_index |-> 0]

ast_push_child(parent, child) ==
    [parent EXCEPT
        !.child_capacity = IF parent.child_count >= parent.child_capacity
                           THEN parent.child_capacity * 2
                           ELSE parent.child_capacity,
        !.child = Append(parent.child, child),
        !.child_count = parent.child_count + 1]

\* malloc(sizeof(struct ast_node *)) reserves a pointer's worth of bytes and
\* ast_init then writes a whole struct ast_node through it.  The write is out
\* of bounds: either it lands in memory nothing else uses and the node reads
\* back as written, or the process is stopped.
NodeWriteOutcomes == {"intact", "abort"}

\* token_as_string: the text of the token's span.
token_as_string(src, tok) == SubSeq(src.raw, tok.start + 1, tok.end)

\* node->string is char[AST_STRING_LEN]: a text of AST_STRING_LEN bytes or more
\* does not fit with its terminator.  What the field then reads as is either a
\* copy cut to the array or the text running on into the bytes of the next field.
StringFieldOutcomes(text) ==
    IF Len(text) < AST_STRING_LEN
    THEN {text}
    ELSE {SubSeq(text, 1, AST_STRING_LEN - 1), Append(text, "?")}

DigitChars == <<"0", "1", "2", "3", "4", "5", "6", "7", "8", "9">>

DigitVal(c) == (CHOOSE d \in 1 .. 10 : DigitChars[d] = c) - 1

\* The value of the leading digits of str from position k on, acc so far;
\* -1 once the value no longer fits an int.
RECURSIVE AtoiFrom(_, _, _)
AtoiFrom(str, k, acc) ==
    IF k > Len(str) \/ ~is_number(str[k]) THEN acc
    ELSE IF acc > (INT_MAX - DigitVal(str[k])) \div 10 THEN -1
    ELSE AtoiFrom(str, k + 1, acc * 10 + DigitVal(str[k]))

\* atoi into `int number`: the value when an int holds it; otherwise the
\* behaviour is undefined, and what builds produce is the wrapped value, the
\* narrowed saturation of strtol (-1) or a saturation at INT_MAX.
AtoiOutcomes(str) ==
    IF AtoiFrom(str, 1, 0) >= 0
    THEN {AtoiFrom(str, 1, 0)}
    ELSE {-INT_MAX - 1, -1, INT_MAX}

\* The nodes node_from_token can hand back for a token (its write intact).
node_from_token(src, tok) ==
    { [ast_init EXCEPT !.string = str, !.number = n, !.source_index = tok.start] :
        <<str, n>> \in UNION { { <<st, v>> : v \in IF tok.tag = TOKEN_INT_LIT
                                                  THEN AtoiOutcomes(st) ELSE {0} } :
                               st \in StringFieldOutcomes(token_as_string(src, tok)) } }

(***************************************************************************)
(* The parser (parser.c).  p is the struct parser together with the lexer  *)
(* cursor and the diagnostics it points to.                                *)
(***************************************************************************)
parser_advance(src, p) ==
    LET r == lexer_next(src, [index |-> p.index, ctx |-> p.ctx])
    IN  [previous |-> p.current, current |-> r.token, index |-> r.index, ctx |-> r.ctx]

ExpectAdvanceOnFailure(src, p, tag) ==
    IF p.previous.tag = tag
    THEN [ok |-> TRUE, out_token |-> p.previous, p |-> parser_advance(src, p)]
    ELSE [ok |-> FALSE, out_token |-> NoToken,
          p |-> parser_advance(src,
                   [p EXCEPT !.ctx = error_ctx_push(p.ctx, ExpectedFmt,
                       <<TokenTagToString(tag), TokenTagToString(p.previous.tag)>>)])]

parser_expect(src, p, tag) ==
    IF p.previous.tag = tag
    THEN [ok |-> TRUE, out_token |-> p.previous, p |-> parser_advance(src, p)]
    ELSE [ok |-> FALSE, out_token |-> NoToken,
          p |-> [p EXCEPT !.ctx = error_ctx_push(p.ctx, ExpectedFmt,
                    <<TokenTagToString(tag), TokenTagToString(p.previous.tag)>>)]]

parse_top_level(p) == NULL

parse_func_decl(p) == NULL

parse_stmt(p) == NULL

parse_block(p) == NULL

parse_expr(p) == NULL

parse_var_decl(p) == NULL

parse_var_get(p) == NULL

\* while (parser->current.tag != TOKEN_EOF) { ... }
RECURSIVE ParseLoop(_, _)
ParseLoop(p, node) ==
    IF p.current.tag # TOKEN_EOF
    THEN LET top_level == parse_top_level(p)
         IN  IF top_level = NULL
             THEN NULL
             ELSE ParseLoop(p, ast_push_child(node, top_level[1]))
    ELSE <<node>>

Parser == [previous |-> previous, current |-> current, index |-> index, ctx |-> err_ctx]

SetParser(p) ==
    /\ previous' = p.previous
    /\ current' = p.current
    /\ index' = p.index
    /\ err_ctx' = p.ctx

(***************************************************************************)
(* Source texts of the parser runs.                                        *)
(***************************************************************************)
ParseAlphabet == {"x", "7", " ", "%"}

Text_func_foo ==
    <<"f", "u", "n", "c", " ", "f", "o", "o", "(", " ", ":", " ", "I", "n",
      "t", " ", "{", " ", "}">>

Text_func_main ==
    <<"f", "u", "n", "c", " ", "m", "a", "i", "n", "(", ")", ":", " ", "I",
      "n", "t", " ", "{", " ", "v", "a", "r", " ", "x", ":", " ", "I", "n",
      "t", ";", " ", "x", ";", " ", "}">>

Text_int_max == <<"2", "1", "4", "7", "4", "8", "3", "6", "4", "7">>

Text_int_over == <<"2", "1", "4", "7", "4", "8", "3", "6", "4", "8">>

Text_long_digits == [i \in 1 .. AST_STRING_LEN |-> "9"]

Text_two_ints_illegal == <<"0", "7", " ", "7", " ", "%">>

ParseTexts ==
    TextsUpTo(ParseAlphabet, MaxParseLen)
        \cup {Text_func_foo, Text_func_main, Text_int_max, Text_int_over,
              Text_long_digits, Text_two_ints_illegal}

InitParser ==
    /\ source \in {SourceInfo(t) : t \in ParseTexts}
    /\ index = lexer_init(error_ctx_init).index
    /\ err_ctx = lexer_init(error_ctx_init).ctx
    /\ token = NoToken
    /\ tokens = <<>>
    /\ extra = 0
    /\ previous = NoToken
    /\ current = NoToken
    /\ result = NULL
    /\ calls = 0
    /\ last = NoCall
    /\ pc = "start"

\* parser_parse, called on a parser whose lexer is at the start of the source.
ParserParse ==
    /\ pc = "start"
    /\ \E heap \in NodeWriteOutcomes :
          IF heap = "abort"
          THEN /\ pc' = "aborted"
               /\ UNCHANGED <<previous, current, index, err_ctx, result>>
          ELSE LET node == [ast_init EXCEPT !.tag = AST_MODULE, !.string = source.filename]
                   p    == parser_advance(source, parser_advance(source, Parser))
               IN  /\ SetParser(p)
                   /\ result' = ParseLoop(p, node)
                   /\ pc' = "returned"
    /\ UNCHANGED <<source, token, tokens, extra, calls, last>>

\* The two parser_advance calls that fill the cached tokens, after which the
\* grammar rules run.
PrimeTokens ==
    /\ pc = "start"
    /\ SetParser(parser_advance(source, parser_advance(source, Parser)))
    /\ pc' = "primed"
    /\ UNCHANGED <<source, token, tokens, extra, result, calls, last>>

ParserExpect ==
    /\ pc = "primed"
    /\ calls < MaxCalls
    /\ \E tag \in TokenTags :
          LET e == parser_expect(source, Parser, tag)
          IN  /\ SetParser(e.p)
              /\ last' = [op |-> "parser_expect", tag |-> tag, ok |-> e.ok,
                          out_token |-> e.out_token]
    /\ calls' = calls + 1
    /\ UNCHANGED <<source, token, tokens, extra, result, pc>>

ParseIntLit ==
    /\ pc = "primed"
    /\ calls < MaxCalls
    /\ LET e == parser_expect(source, Parser, TOKEN_INT_LIT)
       IN  /\ SetParser(e.p)
           /\ IF ~e.ok
              THEN /\ result' = NULL
                   /\ last' = [op |-> "parse_int_lit", tag |-> TOKEN_INT_LIT, ok |-> FALSE,
                               out_token |-> NoToken]
                   /\ pc' = pc
              ELSE \E heap \in NodeWriteOutcomes :
                      IF heap = "abort"
                      THEN /\ pc' = "aborted"
                           /\ UNCHANGED <<result, last>>
                      ELSE \E node \in node_from_token(source, e.out_token) :
                              /\ result' = <<[node EXCEPT !.tag = AST_INT_LIT]>>
                              /\ last' = [op |-> "parse_int_lit", tag |-> TOKEN_INT_LIT,
                                          ok |-> TRUE, out_token |-> e.out_token]
                              /\ pc' = pc
    /\ calls' = calls + 1
    /\ UNCHANGED <<source, token, tokens, extra>>

NextParser == ParserParse \/ PrimeTokens \/ ParserExpect \/ ParseIntLit

SpecParser == InitParser /\ [][NextParser]_vars

(***************************************************************************)
(* Properties of the lexer, over the run of main.c.                        *)
(***************************************************************************)
TokText(t) == SubSeq(source.raw, t.start + 1, t.end)

Covers(t, p) == t.start <= p /\ p < t.end

Positions == 0 .. source.len - 1

IsIllegal(c) == ~is_whitespace(c) /\ ~is_ident(c) /\ MiscTag(c) = TOKEN_ERROR

\* Index in `tokens` of the first end-of-input token (0: none yet).
FirstEof ==
    IF \E k \in DOMAIN tokens : tokens[k].tag = TOKEN_EOF
    THEN CHOOSE k \in DOMAIN tokens :
            /\ tokens[k].tag = TOKEN_EOF
            /\ \A j \in 1 .. k - 1 : tokens[j].tag # TOKEN_EOF
    ELSE 0

\* The spans of tokens 1..n are in increasing order without overlap, cover every
\* non-whitespace byte exactly once and cover no whitespace byte.
SpansTile(n) ==
    /\ \A k \in 1 .. n - 1 : tokens[k].end <= tokens[k + 1].start
    /\ \A k \in 1 .. n : tokens[k].start <= tokens[k].end
    /\ \A p \in Positions :
          IF is_whitespace(Byte(source, p))
          THEN \A k \in 1 .. n : ~Covers(tokens[k], p)
          ELSE Cardinality({k \in 1 .. n : Covers(tokens[k], p)}) = 1

IdentStart(t) ==
    /\ t.tag # TOKEN_EOF
    /\ (is_alpha(Byte(source, t.start)) \/ Byte(source, t.start) = "_")

MaximalIdentRun(t) ==
    /\ \A p \in t.start .. t.end - 1 : is_ident(Byte(source, p))
    /\ (t.end = source.len \/ ~is_ident(Byte(source, t.end)))

\* C1 (as claimed): a token that starts at a letter or underscore spans the
\* maximal run of letters, digits and underscores, and its tag is KEYWORD_VAR
\* if and only if the text of the run is exactly `var`, IDENT for any other run.
C1_KeywordVarIffExact ==
    \A k \in DOMAIN tokens :
        IdentStart(tokens[k]) =>
            /\ MaximalIdentRun(tokens[k])
            /\ (tokens[k].tag = TOKEN_KEYWORD_VAR <=> TokText(tokens[k]) = <<"v", "a", "r">>)
            /\ (TokText(tokens[k]) # <<"v", "a", "r">> => tokens[k].tag = TOKEN_IDENT)

\* C2 (as claimed): every token lexer_next returns has 0 <= start <= end <= length;
\* the end-of-input token spans the final byte of a non-empty buffer and is an
\* empty span for the empty buffer.
C2_TokenSpanInBuffer ==
    \A k \in DOMAIN tokens :
        /\ 0 <= tokens[k].start
        /\ tokens[k].start <= tokens[k].end
        /\ tokens[k].end <= source.len
        /\ tokens[k].tag = TOKEN_EOF =>
              IF source.len = 0
              THEN tokens[k].start = tokens[k].end
              ELSE tokens[k].start = source.len - 1 /\ tokens[k].end = source.len

\* C3 (as claimed): once end-of-input has been returned, the spans of all the
\* tokens returned up to and including it are in increasing order, do not
\* overlap, cover every non-whitespace byte exactly once and no whitespace byte.
C3_AllSpansTile == pc = "done" => SpansTile(FirstEof)

\* C3 (amended): once end-of-input has been returned, the spans of the tokens
\* returned before the end-of-input token are in increasing order, do not
\* overlap, cover every non-whitespace byte exactly once and no whitespace byte.
C3_SpansBeforeEofTile == pc = "done" => FirstEof >= 1 /\ SpansTile(FirstEof - 1)

C3_Witness ==
    /\ pc = "done"
    /\ source.raw = <<"a", " ", "1", ";">>
    /\ Len(tokens) = 4

ErrorTokens == {k \in DOMAIN tokens : tokens[k].tag = TOKEN_ERROR}

\* C4: an illegal byte yields exactly one diagnostic `Found illegal character
\* '<c>'` and one ERROR token spanning that byte, with the cursor just past it;
\* the diagnostics are, in order, those of the ERROR tokens, and every illegal
\* byte behind the cursor has its ERROR token (lexing went on after it).
C4_IllegalCharRecovery ==
    /\ err_ctx.size = Cardinality(ErrorTokens)
    /\ Len(err_ctx.errors) = err_ctx.size
    /\ \A k \in ErrorTokens :
          LET t == tokens[k]
              n == Cardinality({j \in ErrorTokens : j <= k})
          IN  /\ t.end = t.start + 1
              /\ IsIllegal(Byte(source, t.start))
              /\ err_ctx.errors[n] = [msg |-> IllegalCharFmt, args |-> <<Byte(source, t.start)>>]
    /\ \A p \in Positions :
          (p < index /\ IsIllegal(Byte(source, p))) =>
              \E k \in ErrorTokens : tokens[k].start = p
    /\ (token # NoToken /\ token.tag = TOKEN_ERROR) => index = token.end
    /\ pc = "done" => index = source.len /\ token.tag = TOKEN_EOF

C4_Witness ==
    /\ pc = "done"
    /\ source.raw = Text_a_pct_b
    /\ [k \in DOMAIN tokens |-> tokens[k].tag] = <<TOKEN_IDENT, TOKEN_ERROR, TOKEN_IDENT, TOKEN_EOF>>
    /\ err_ctx.errors = <<[msg |-> IllegalCharFmt, args |-> <<"%">>]>>

C9_Step ==
    /\ index < source.len => index' > index
    /\ index' <= source.len
    /\ (token # NoToken /\ token.tag = TOKEN_EOF) =>
          token' = token /\ index' = index /\ err_ctx' = err_ctx
    /\ Len(tokens') >= source.len + 1 =>
          \E k \in 1 .. source.len + 1 : tokens'[k].tag = TOKEN_EOF

\* C9: every lexer_next call made with the cursor before the end of the buffer
\* strictly increases the cursor, never past the length; end-of-input is
\* returned within length + 1 calls; after it, every call returns the same
\* end-of-input token and leaves the cursor and the diagnostics unchanged.
C9_LexingProgress == [][C9_Step]_vars

C9_Witness ==
    /\ extra >= 1
    /\ source.len >= 3
    /\ Len(tokens) = source.len + 1 + extra
    /\ tokens[Len(tokens)] = tokens[Len(tokens) - 1]

(***************************************************************************)
(* Properties of the parser.                                               *)
(***************************************************************************)
IsExpectStep == pc = "primed" /\ pc' = "primed" /\ calls' = calls + 1 /\ last'.op = "parser_expect"

ExpectFailure ==
    /\ ~last'.ok
    /\ err_ctx' = error_ctx_push(err_ctx, ExpectedFmt,
                     <<TokenTagToString(last'.tag), TokenTagToString(previous.tag)>>)
    /\ UNCHANGED <<previous, current, index>>

ExpectAdvance ==
    LET nxt == lexer_next(source, [index |-> index, ctx |-> err_ctx])
    IN  /\ last'.ok
        /\ last'.out_token = previous
        /\ previous' = current
        /\ current' = nxt.token
        /\ index' = nxt.index

\* C5 (as claimed): parser_expect(kind) with previous.tag = kind returns previous,
\* advances once and appends no diagnostic; otherwise it appends exactly one
\* diagnostic naming the expected and the found kind, fails, and leaves
\* previous, current and the lexer cursor unchanged.
C5_ExpectNoDiagnosticOnSuccess ==
    [][IsExpectStep =>
          IF previous.tag = last'.tag
          THEN ExpectAdvance /\ err_ctx' = err_ctx
          ELSE ExpectFailure]_vars

\* C5 (amended): parser_expect(kind) with previous.tag = kind returns previous,
\* advances once and appends no diagnostic of its own: the diagnostics grow by
\* the one illegal-character entry of the lexer exactly when the token pulled
\* into current is an ERROR token, and are unchanged otherwise.  On a mismatch
\* it appends exactly one diagnostic naming the expected and the found kind,
\* fails, and leaves previous, current and the lexer cursor unchanged.
C5_ExpectContract ==
    [][IsExpectStep =>
          IF previous.tag = last'.tag
          THEN /\ ExpectAdvance
               /\ err_ctx' = IF current'.tag = TOKEN_ERROR
                             THEN error_ctx_push(err_ctx, IllegalCharFmt,
                                                 <<Byte(source, current'.start)>>)
                             ELSE err_ctx
          ELSE ExpectFailure]_vars

C5_Witness ==
    /\ pc = "primed"
    /\ calls = 1
    /\ last.op = "parser_expect"
    /\ last.ok
    /\ last.out_token = Token(TOKEN_INT_LIT, 0, 1)
    /\ previous.tag = TOKEN_IDENT
    /\ current.tag = TOKEN_ERROR
    /\ err_ctx.size = 1

\* C6 (as claimed): whenever parser_parse returns no Module tree the
\* diagnostics are not empty; for `func foo( : Int { }` it fails with exactly
\* one diagnostic, which names the expected kind RPAREN.
C6_FailureHasDiagnostic ==
    pc = "returned" =>
        /\ result = NULL => ~error_ctx_isempty(err_ctx)
        /\ source.raw = Text_func_foo =>
              /\ result = NULL
              /\ err_ctx.size = 1
              /\ err_ctx.errors[1].msg = ExpectedFmt
              /\ err_ctx.errors[1].args[1] = "RPAREN"

Shape(tag, label, children) == [tag |-> tag, string |-> label, child |-> children]

RECURSIVE ShapeOf(_)
ShapeOf(node) ==
    Shape(node.tag, node.string, [k \in DOMAIN node.child |-> ShapeOf(node.child[k])])

Tree_func_main ==
    Shape(AST_MODULE, Filename, <<
        Shape(AST_FUNC_DECL, <<"m", "a", "i", "n">>, <<
            Shape(AST_TYPE_NAME, <<"I", "n", "t">>, <<>>),
            Shape(AST_BLOCK, <<>>, <<
                Shape(AST_VAR_DECL, <<"x">>, <<Shape(AST_TYPE_NAME, <<"I", "n", "t">>, <<>>)>>),
                Shape(AST_VAR_GET, <<"x">>, <<>>) >>) >>) >>)

\* C7 (as claimed): parsing `func main(): Int { var x: Int; x; }` succeeds
\* with no diagnostics and returns a Module with one FuncDecl child `main`
\* whose Block holds, in order, VarDecl `x` (with TypeName `Int`) and VarGet `x`.
C7_WellFormedParses ==
    (pc = "returned" /\ source.raw = Text_func_main) =>
        /\ result # NULL
        /\ error_ctx_isempty(err_ctx)
        /\ ShapeOf(result[1]) = Tree_func_main

RECURSIVE IntToDigits(_)
IntToDigits(n) ==
    IF n < 10 THEN <<DigitChars[n + 1]>>
    ELSE Append(IntToDigits(n \div 10), DigitChars[(n % 10) + 1])

RECURSIVE StripZeros(_)
StripZeros(d) == IF Len(d) > 1 /\ d[1] = "0" THEN StripZeros(Tail(d)) ELSE d

\* C8 (as claimed): parse_int_lit on an INT_LIT token whose text is the digit
\* run d returns an IntLit node whose label is d verbatim and whose number is
\* the decimal value of d (the number, written in decimal, is d without its
\* leading zeros), whatever the length or magnitude of d.
C8_IntLitRoundTrip ==
    (pc = "primed" /\ last.op = "parse_int_lit" /\ last.ok) =>
        LET d == SubSeq(source.raw, last.out_token.start + 1, last.out_token.end)
        IN  /\ result # NULL
            /\ result[1].tag = AST_INT_LIT
            /\ result[1].string = d
            /\ result[1].number >= 0
            /\ IntToDigits(result[1].number) = StripZeros(d)

HasToken == skip_whitespace(source, 0) < source.len

\* C10 (as claimed): whenever parser_parse returns a Module node, previous is the
\* end-of-input token, and no source with at least one token before
\* end-of-input is accepted as a Module with no children and no diagnostics.
C10_ModuleConsumesAllTokens ==
    (pc = "returned" /\ result # NULL) =>
        /\ previous.tag = TOKEN_EOF
        /\ ~(HasToken /\ result[1].child_count = 0 /\ error_ctx_isempty(err_ctx))

====
